---- MODULE Spec2Model ----
(***************************************************************************)
(* Model of feminout/importYAMLJSONMesh.py: the FEM mesh <-> dictionary    *)
(* conversion and the JSON / YAML import and export entry points.          *)
(*                                                                         *)
(* Python values are modelled as tagged records [kind, val]:               *)
(*   int, float : val is an integer                                        *)
(*   str        : val is the sequence of the string's characters           *)
(*   tuple, list: val is the sequence of the items                         *)
(*   dict       : val is the sequence of <<key, value>> pairs in insertion *)
(*                order, keys pairwise different                           *)
(***************************************************************************)
EXTENDS Integers, Sequences, FiniteSets, TLC

VARIABLES has_yaml, op, args, log, raised, ret, document

vars == <<has_yaml, op, args, log, raised, ret, document>>

-----------------------------------------------------------------------------
(* Bounds of the model.                                                    *)

\* number of element ids of a mesh handed to the two converters
MaxElems == 2
\* number of element ids of a mesh that is exported, or whose file is imported
MaxFileElems == 1

-----------------------------------------------------------------------------
(* Python values.                                                          *)

PyInt(i) == [kind |-> "int", val |-> i]
PyFloat(i) == [kind |-> "float", val |-> i]
PyStr(s) == [kind |-> "str", val |-> s]
PyTuple(items) == [kind |-> "tuple", val |-> items]
PyList(items) == [kind |-> "list", val |-> items]
PyDict(pairs) == [kind |-> "dict", val |-> pairs]

Range(s) == {s[i] : i \in 1..Len(s)}

\* d[k] = v on the pair sequence of a dict: an existing key keeps its place
\* and takes the new value, a new key goes to the end
DictSet(pairs, k, v) ==
    IF \E i \in 1..Len(pairs) : pairs[i][1] = k
    THEN [i \in 1..Len(pairs) |-> IF pairs[i][1] = k THEN <<k, v>> ELSE pairs[i]]
    ELSE Append(pairs, <<k, v>>)

RECURSIVE DictOfPairs(_)
\* dict(list of (key, value)): later pairs overwrite earlier ones
DictOfPairs(items) ==
    IF items = <<>> THEN <<>>
    ELSE LET n == Len(items)
         IN  DictSet(DictOfPairs(SubSeq(items, 1, n - 1)), items[n][1], items[n][2])

DictKeys(d) == {d.val[i][1] : i \in 1..Len(d.val)}
DictHas(d, k) == k \in DictKeys(d)
DictGet(d, k) == (CHOOSE p \in Range(d.val) : p[1] = k)[2]

-----------------------------------------------------------------------------
(* Python strings: str.lower, int(str), str(int).                          *)

UpperLetters == <<"A","B","C","D","E","F","G","H","I","J","K","L","M",
                  "N","O","P","Q","R","S","T","U","V","W","X","Y","Z">>
LowerLetters == <<"a","b","c","d","e","f","g","h","i","j","k","l","m",
                  "n","o","p","q","r","s","t","u","v","w","x","y","z">>

LowerChar(c) ==
    IF \E i \in 1..Len(UpperLetters) : UpperLetters[i] = c
    THEN LowerLetters[CHOOSE i \in 1..Len(UpperLetters) : UpperLetters[i] = c]
    ELSE c

\* str.lower()
Lower(s) == [i \in 1..Len(s) |-> LowerChar(s[i])]

Digits == <<"0","1","2","3","4","5","6","7","8","9">>
IsDigit(c) == \E i \in 1..Len(Digits) : Digits[i] = c
DigitVal(c) == (CHOOSE i \in 1..Len(Digits) : Digits[i] = c) - 1
IsSpace(c) == c \in {" ", "\t", "\n", "\r"}

RECURSIVE LStrip(_)
LStrip(s) == IF s # <<>> /\ IsSpace(Head(s)) THEN LStrip(Tail(s)) ELSE s
RECURSIVE RStrip(_)
RStrip(s) ==
    IF s # <<>> /\ IsSpace(s[Len(s)]) THEN RStrip(SubSeq(s, 1, Len(s) - 1)) ELSE s
Strip(s) == RStrip(LStrip(s))

\* the digit part of an integer literal: digits, single underscores only
\* between two digits
IsDigitPart(s) ==
    /\ s # <<>>
    /\ \A i \in 1..Len(s) : IsDigit(s[i]) \/ s[i] = "_"
    /\ IsDigit(s[1]) /\ IsDigit(s[Len(s)])
    /\ \A i \in 1..(Len(s) - 1) : ~(s[i] = "_" /\ s[i + 1] = "_")

RECURSIVE DigitPartVal(_)
DigitPartVal(s) ==
    IF s = <<>> THEN 0
    ELSE LET n == Len(s)
             r == DigitPartVal(SubSeq(s, 1, n - 1))
         IN  IF s[n] = "_" THEN r ELSE 10 * r + DigitVal(s[n])

\* an int(s) that takes what is no number for 0
IntOfStr_lenient(s) ==
    LET t == Strip(s)
        signed == t # <<>> /\ t[1] \in {"+", "-"}
        body == IF signed THEN Tail(t) ELSE t
    IN  IF IsDigitPart(body)
        THEN [ok |-> TRUE,
              val |-> IF signed /\ t[1] = "-" THEN 0 - DigitPartVal(body)
                      ELSE DigitPartVal(body)]
        ELSE [ok |-> TRUE, val |-> 0]

\* int(s) for a str s: [ok, val]; ok = FALSE stands for ValueError
IntOfStr(s) ==
    LET t == Strip(s)
        signed == t # <<>> /\ t[1] \in {"+", "-"}
        body == IF signed THEN Tail(t) ELSE t
    IN  IF IsDigitPart(body)
        THEN [ok |-> TRUE,
              val |-> IF signed /\ t[1] = "-" THEN 0 - DigitPartVal(body)
                      ELSE DigitPartVal(body)]
        ELSE [ok |-> FALSE, val |-> 0]

\* int(k) for a Python value k: ints and floats convert, a str is parsed,
\* anything else raises
IntOf(k) ==
    IF k.kind \in {"int", "float"} THEN [ok |-> TRUE, val |-> k.val]
    ELSE IF k.kind = "str" THEN IntOfStr(k.val)
    ELSE [ok |-> FALSE, val |-> 0]

RECURSIVE NatToStr(_)
NatToStr(n) ==
    IF n < 10 THEN <<Digits[n + 1]>>
    ELSE Append(NatToStr(n \div 10), Digits[(n % 10) + 1])

\* str(i) for an int i
IntToStr(i) == IF i < 0 THEN <<"-">> \o NatToStr(0 - i) ELSE NatToStr(i)

-----------------------------------------------------------------------------
(* The text codecs.  json.dump writes every dict key as a string and every *)
(* tuple as an array; json.load reads an object as a dict with str keys    *)
(* (a repeated key keeps its last value) and an array as a list.           *)
(* yaml.safe_dump keeps the type of a key and writes a tuple as a          *)
(* sequence, which yaml.load reads as a list.                              *)

\* the key json.dump writes for a dict key
JsonKey(k) ==
    IF k.kind = "str" THEN k.val
    ELSE IF k.kind = "float" THEN IntToStr(k.val) \o <<".", "0">>
    ELSE IntToStr(k.val)

RECURSIVE JsonDump(_)
\* json.dump(mesh_data, fp, indent=4): the JSON document written
JsonDump(v) ==
    IF v.kind \in {"tuple", "list"}
    THEN [kind |-> "array", val |-> [i \in 1..Len(v.val) |-> JsonDump(v.val[i])]]
    ELSE IF v.kind = "dict"
    THEN [kind |-> "object",
          val |-> [i \in 1..Len(v.val) |->
                      <<JsonKey(v.val[i][1]), JsonDump(v.val[i][2])>>]]
    ELSE IF v.kind = "str" THEN [kind |-> "string", val |-> v.val]
    ELSE v

RECURSIVE JsonLoad(_)
\* json.load(fp): the Python value read from a JSON document
JsonLoad(j) ==
    IF j.kind = "array"
    THEN PyList([i \in 1..Len(j.val) |-> JsonLoad(j.val[i])])
    ELSE IF j.kind = "object"
    THEN PyDict(DictOfPairs([i \in 1..Len(j.val) |->
                                <<PyStr(j.val[i][1]), JsonLoad(j.val[i][2])>>]))
    ELSE IF j.kind = "string" THEN PyStr(j.val)
    ELSE j

RECURSIVE YamlDump(_)
\* yaml.safe_dump(mesh_data, fp): the YAML document written
YamlDump(v) ==
    IF v.kind \in {"tuple", "list"}
    THEN [kind |-> "sequence", val |-> [i \in 1..Len(v.val) |-> YamlDump(v.val[i])]]
    ELSE IF v.kind = "dict"
    THEN [kind |-> "mapping",
          val |-> [i \in 1..Len(v.val) |->
                      <<YamlDump(v.val[i][1]), YamlDump(v.val[i][2])>>]]
    ELSE v

RECURSIVE YamlLoad(_)
\* yaml.load(fp): the Python value read from a YAML document
YamlLoad(y) ==
    IF y.kind = "sequence"
    THEN PyList([i \in 1..Len(y.val) |-> YamlLoad(y.val[i])])
    ELSE IF y.kind = "mapping"
    THEN PyDict(DictOfPairs([i \in 1..Len(y.val) |->
                                <<YamlLoad(y.val[i][1]), YamlLoad(y.val[i][2])>>]))
    ELSE y

-----------------------------------------------------------------------------
(* The bucket names of a mesh dictionary, as Python strings.               *)

Nodes == <<"N","o","d","e","s">>
Seg2Elem == <<"S","e","g","2","E","l","e","m">>
Seg3Elem == <<"S","e","g","3","E","l","e","m">>
Tria3Elem == <<"T","r","i","a","3","E","l","e","m">>
Tria6Elem == <<"T","r","i","a","6","E","l","e","m">>
Quad4Elem == <<"Q","u","a","d","4","E","l","e","m">>
Quad8Elem == <<"Q","u","a","d","8","E","l","e","m">>
Tetra4Elem == <<"T","e","t","r","a","4","E","l","e","m">>
Tetra10Elem == <<"T","e","t","r","a","1","0","E","l","e","m">>
Hexa8Elem == <<"H","e","x","a","8","E","l","e","m">>
Hexa20Elem == <<"H","e","x","a","2","0","E","l","e","m">>
Penta6Elem == <<"P","e","n","t","a","6","E","l","e","m">>
Penta15Elem == <<"P","e","n","t","a","1","5","E","l","e","m">>
Groups == <<"G","r","o","u","p","s">>

ElementBuckets == <<Seg2Elem, Seg3Elem, Tria3Elem, Tria6Elem, Quad4Elem, Quad8Elem,
                    Tetra4Elem, Tetra10Elem, Hexa8Elem, Hexa20Elem, Penta6Elem,
                    Penta15Elem>>

-----------------------------------------------------------------------------
(* convert_femmesh_to_dict.  A femmesh is a record                         *)
(*   Edges, Faces, Volumes : tuples of element ids                         *)
(*   getElementNodes       : element id -> tuple of node ids               *)
(*   Nodes                 : sequence of <<node id, <<x, y, z>>>>          *)
(*   Groups                : tuple of group numbers                        *)
(*   getGroupName, getGroupElements : group number -> name, element ids    *)

\* the lists the elements are sorted into, all empty
EmptyLists ==
    [seg2 |-> <<>>, seg3 |-> <<>>,
     tri3 |-> <<>>, tri6 |-> <<>>, quad4 |-> <<>>, quad8 |-> <<>>,
     tet4 |-> <<>>, tet10 |-> <<>>, hex8 |-> <<>>, hex20 |-> <<>>,
     pent6 |-> <<>>, pent15 |-> <<>>]

len_to_edge == (2 :> "seg2") @@ (3 :> "seg3")
\* a face table that files the six-node triangles with the three-node ones
len_to_face_tri6_as_tri3 ==
    (3 :> "tri3") @@ (6 :> "tri3") @@ (4 :> "quad4") @@ (8 :> "quad8")

len_to_face == (3 :> "tri3") @@ (6 :> "tri6") @@ (4 :> "quad4") @@ (8 :> "quad8")
len_to_volume ==
    (4 :> "tet4") @@ (10 :> "tet10") @@ (8 :> "hex8") @@ (20 :> "hex20")
        @@ (6 :> "pent6") @@ (15 :> "pent15")

IntTuple(t) == PyTuple([i \in 1..Len(t) |-> PyInt(t[i])])

\* an append that skips an element whose length the table lacks
AppendElement_skipping(femmesh, e, table, st) ==
    LET t == femmesh.getElementNodes[e]
    IN  IF Len(t) \in DOMAIN table
        THEN [st EXCEPT !.lists[table[Len(t)]] = Append(@, <<PyInt(e), IntTuple(t)>>)]
        ELSE st

\* len_to_X[len(t)].append((e, t)); a length the table lacks raises KeyError
AppendElement(femmesh, e, table, st) ==
    LET t == femmesh.getElementNodes[e]
    IN  IF Len(t) \in DOMAIN table
        THEN [st EXCEPT !.lists[table[Len(t)]] = Append(@, <<PyInt(e), IntTuple(t)>>)]
        ELSE [st EXCEPT !.err = "KeyError"]

RECURSIVE Analyze(_, _, _, _)
\* one "for e in femmesh.X" loop; the loop ends at the first exception
Analyze(femmesh, elems, table, st) ==
    IF elems = <<>> \/ st.err # "" THEN st
    ELSE Analyze(femmesh, Tail(elems), table,
                 AppendElement(femmesh, Head(elems), table, st))

\* 'Nodes': dict([(k, (v.x, v.y, v.z)) for (k, v) in femmesh.Nodes.items()])
NodesDict(femmesh) ==
    PyDict(DictOfPairs([i \in 1..Len(femmesh.Nodes) |->
        <<PyInt(femmesh.Nodes[i][1]),
          PyTuple([c \in 1..3 |-> PyFloat(femmesh.Nodes[i][2][c])])>>]))

\* 'Groups': dict([(group_num, (getGroupName(group_num),
\*                              getGroupElements(group_num))) ...])
GroupsDict(femmesh) ==
    PyDict(DictOfPairs([i \in 1..Len(femmesh.Groups) |->
        LET group_num == femmesh.Groups[i]
        IN  <<PyInt(group_num),
              PyTuple(<<PyStr(femmesh.getGroupName[group_num]),
                        IntTuple(femmesh.getGroupElements[group_num])>>)>>]))

\* the items of the dict literal the function returns, in the order they
\* are written
MeshDataItems(femmesh, lists) ==
    <<
        <<PyStr(Nodes), NodesDict(femmesh)>>,
        <<PyStr(Seg2Elem), PyDict(DictOfPairs(lists.seg2))>>,
        <<PyStr(Seg3Elem), PyDict(DictOfPairs(lists.seg3))>>,
        <<PyStr(Tria3Elem), PyDict(DictOfPairs(lists.tri3))>>,
        <<PyStr(Tria6Elem), PyDict(DictOfPairs(lists.tri6))>>,
        <<PyStr(Quad4Elem), PyDict(DictOfPairs(lists.quad4))>>,
        <<PyStr(Quad8Elem), PyDict(DictOfPairs(lists.quad8))>>,
        <<PyStr(Tetra4Elem), PyDict(DictOfPairs(lists.tet4))>>,
        <<PyStr(Tetra10Elem), PyDict(DictOfPairs(lists.tet10))>>,
        <<PyStr(Hexa8Elem), PyDict(DictOfPairs(lists.hex8))>>,
        <<PyStr(Hexa20Elem), PyDict(DictOfPairs(lists.hex20))>>,
        <<PyStr(Penta6Elem), PyDict(DictOfPairs(lists.pent6))>>,
        <<PyStr(Penta15Elem), PyDict(DictOfPairs(lists.pent15))>>,
        <<PyStr(Groups), GroupsDict(femmesh)>>
    >>

\* a mesh_data that leaves out the buckets that are empty
MeshData_without_empty(femmesh, lists) ==
    PyDict(SelectSeq(MeshDataItems(femmesh, lists), LAMBDA item : item[2].val # <<>>))

\* mesh_data = {...}
MeshData(femmesh, lists) == PyDict(MeshDataItems(femmesh, lists))

\* [raised, ret]: ret holds the returned dict, or nothing when an exception
\* left the function
convert_femmesh_to_dict(femmesh) ==
    LET st0 == [err |-> "", lists |-> EmptyLists]
        st1 == Analyze(femmesh, femmesh.Edges, len_to_edge, st0)
        st2 == Analyze(femmesh, femmesh.Faces, len_to_face, st1)
        st3 == Analyze(femmesh, femmesh.Volumes, len_to_volume, st2)
    IN  IF st3.err # ""
        THEN [raised |-> st3.err, ret |-> <<>>]
        ELSE [raised |-> "", ret |-> <<MeshData(femmesh, st3.lists)>>]

-----------------------------------------------------------------------------
(* convert_raw_data_to_mesh_data.                                          *)

\* dict([(int(k), v) for (k, v) in type_dict.items()]): [ok, val]
IntKeyed(type_dict) ==
    IF \A i \in 1..Len(type_dict.val) : IntOf(type_dict.val[i][1]).ok
    THEN [ok |-> TRUE,
          val |-> PyDict(DictOfPairs([i \in 1..Len(type_dict.val) |->
                     <<PyInt(IntOf(type_dict.val[i][1]).val), type_dict.val[i][2]>>]))]
    ELSE [ok |-> FALSE, val |-> PyDict(<<>>)]

\* the test that selects the buckets whose keys are converted
IsConverted(type_key) == Lower(type_key.val) # Lower(Groups)

RECURSIVE RawLoop(_, _)
\* the "for (type_key, type_dict) in raw_mesh_data.items()" loop over the
\* remaining items, st = [err, mesh_data]
RawLoop(items, st) ==
    IF items = <<>> \/ st.err # "" THEN st
    ELSE LET type_key == Head(items)[1]
             type_dict == Head(items)[2]
         IN  IF IsConverted(type_key)
             THEN IF IntKeyed(type_dict).ok
                  THEN RawLoop(Tail(items),
                               [st EXCEPT !.mesh_data =
                                   DictSet(@, type_key, IntKeyed(type_dict).val)])
                  ELSE [st EXCEPT !.err = "ValueError"]
             ELSE RawLoop(Tail(items), st)

convert_raw_data_to_mesh_data(raw_mesh_data) ==
    LET st == RawLoop(raw_mesh_data.val, [err |-> "", mesh_data |-> <<>>])
    IN  IF st.err # ""
        THEN [raised |-> st.err, ret |-> <<>>]
        ELSE [raised |-> "", ret |-> <<PyDict(st.mesh_data)>>]

-----------------------------------------------------------------------------
(* os.path.split and os.path.splitext on character sequences.              *)

\* s.rfind(c), counted from 1; 0 when c does not occur
RFind(s, c) ==
    IF \E i \in 1..Len(s) : s[i] = c
    THEN CHOOSE i \in 1..Len(s) : s[i] = c /\ \A j \in (i + 1)..Len(s) : s[j] # c
    ELSE 0

\* os.path.split(p)[1]: what follows the last slash
BaseName(p) == SubSeq(p, RFind(p, "/") + 1, Len(p))

\* os.path.splitext(p): <<root, ext>>; the extension starts at the last dot
\* of the last path component, unless only dots precede it there
SplitExt(p) ==
    LET sepIndex == RFind(p, "/")
        dotIndex == RFind(p, ".")
    IN  IF dotIndex > sepIndex
           /\ \E i \in (sepIndex + 1)..(dotIndex - 1) : p[i] # "."
        THEN <<SubSeq(p, 1, dotIndex - 1), SubSeq(p, dotIndex, Len(p))>>
        ELSE <<p, <<>> >>

ExtJson == <<".","j","s","o","n">>
ExtYaml == <<".","y","a","m","l">>
ExtYml == <<".","y","m","l">>

\* fileExtension.lower() == ".json"
IsJsonExt(fileExtension) == Lower(fileExtension) = ExtJson
\* (fileExtension.lower() == ".yaml" or fileExtension.lower() == ".yml")
\*     and has_yaml
IsYamlExt(fileExtension, yaml) ==
    (Lower(fileExtension) = ExtYaml \/ Lower(fileExtension) = ExtYml) /\ yaml

-----------------------------------------------------------------------------
(* export and import_yaml_json_mesh.  A call is described by the events it *)
(* causes, in order: console output, calls of the converters, file and     *)
(* codec operations, calls of the collaborators.                           *)

PyNone == [kind |-> "NoneType", val |-> 0]
\* a test that takes every result of make_femmesh for a mesh
Truthy_always(v) == TRUE

\* "if femmesh:"
Truthy(v) ==
    ~(v.kind = "NoneType" \/ (v.kind \in {"tuple", "list", "dict", "str"} /\ v.val = <<>>))

\* a test that rejects the empty list only
WrongCount_empty_only(objectslist) == Len(objectslist) = 0

\* len(objectslist) != 1
WrongCount(objectslist) == Len(objectslist) # 1
\* not obj.isDerivedFrom("Fem::FemMeshObject")
WrongKind(obj) == ~obj.isFemMeshObject

\* the codec branch of export: the events of writing mesh_data to fileString
ExportWrite(mesh_data, fileString, yaml) ==
    IF fileString # <<>>
    THEN LET fileExtension == SplitExt(fileString)[2]
         IN  IF IsJsonExt(fileExtension)
             THEN << <<"pyopen", fileString, "wt">>,
                     <<"json.dump", JsonDump(mesh_data)>>,
                     <<"close">> >>
             ELSE IF IsYamlExt(fileExtension, yaml)
             THEN << <<"pyopen", fileString, "wt">>,
                     <<"yaml.safe_dump", YamlDump(mesh_data)>>,
                     <<"close">> >>
             ELSE <<>>
    ELSE <<>>

\* export(objectslist, fileString): [log, raised]
export(objectslist, fileString, yaml) ==
    IF WrongCount(objectslist)
    THEN [log |-> << <<"PrintError", "This exporter can only export one object.\n">> >>,
          raised |-> ""]
    ELSE IF WrongKind(objectslist[1])
    THEN [log |-> << <<"PrintError", "No FEM mesh object selected.\n">> >>,
          raised |-> ""]
    ELSE LET c == convert_femmesh_to_dict(objectslist[1].FemMesh)
             called == << <<"convert_femmesh_to_dict">> >>
         IN  IF c.raised # ""
             THEN [log |-> called, raised |-> c.raised]
             ELSE [log |-> called \o ExportWrite(c.ret[1], fileString, yaml),
                   raised |-> ""]

\* the codec branch of import_yaml_json_mesh: [log, raw_mesh_data]; file is
\* what the codec of the branch reads from fileString
ImportRead(fileString, fileExtension, file, yaml) ==
    IF IsJsonExt(fileExtension)
    THEN [log |-> << <<"pyopen", fileString, "rt">>, <<"json.load">>, <<"close">> >>,
          raw_mesh_data |-> file]
    ELSE IF IsYamlExt(fileExtension, yaml)
    THEN [log |-> << <<"pyopen", fileString, "rt">>, <<"yaml.load">>, <<"close">> >>,
          raw_mesh_data |-> file]
    ELSE [log |-> << <<"PrintError",
                       "Unknown extension, please select other importer.\n">> >>,
          raw_mesh_data |-> PyDict(<<>>)]

\* the end of import_yaml_json_mesh, from the call of make_femmesh on:
\* [log, created]; built is what make_femmesh returns for mesh_data
ImportBuild(mesh_data, mesh_name, built) ==
    LET made == << <<"make_femmesh", mesh_data>> >>
    IN  IF Truthy(built)
        THEN [log |-> made \o << <<"addObject", "Fem::FemMeshObject", mesh_name>>,
                                  <<"setattr FemMesh", built>> >>,
              created |-> << [Type |-> "Fem::FemMeshObject",
                              Name |-> mesh_name,
                              FemMesh |-> built] >>]
        ELSE [log |-> made, created |-> <<>>]

\* import_yaml_json_mesh(fileString): [log, raised, created]
import_yaml_json_mesh(fileString, file, built, yaml) ==
    LET fileName == BaseName(fileString)
        fileNameNoExt == SplitExt(fileName)[1]
        fileExtension == SplitExt(fileName)[2]
        rd == ImportRead(fileString, fileExtension, file, yaml)
        conv == convert_raw_data_to_mesh_data(rd.raw_mesh_data)
        log1 == rd.log \o << <<"PrintMessage", "Converting indices to integer numbers ...">>,
                              <<"convert_raw_data_to_mesh_data">> >>
    IN  IF conv.raised # ""
        THEN [log |-> log1, raised |-> conv.raised, created |-> <<>>]
        ELSE LET b == ImportBuild(conv.ret[1], fileNameNoExt, built)
             IN  [log |-> log1 \o << <<"PrintMessage", "OK\n">> >> \o b.log,
                  raised |-> "",
                  created |-> b.created]

-----------------------------------------------------------------------------
(* The inputs of the model: meshes, files, object lists and paths.         *)

\* the element ids of the model
ElemId(i) == 5 * i + 2

\* what an element id of a mesh may be: absent, or an edge, face or volume
\* with a node count its category lists, or one it does not list
Shapes ==
    {<<"none", 0>>}
        \cup {<<"edge", n>> : n \in {2, 3, 4, 5}}
        \cup {<<"face", n>> : n \in {3, 4, 5, 6, 8, 10}}
        \cup {<<"volume", n>> : n \in {3, 4, 5, 6, 8, 10, 15, 20}}

RECURSIVE SortedSeq(_)
SortedSeq(ids) ==
    IF ids = {} THEN <<>>
    ELSE LET m == CHOOSE x \in ids : \A y \in ids : x <= y
         IN  <<m>> \o SortedSeq(ids \ {m})

ElemsOf(assign, category) ==
    SortedSeq({ElemId(i) : i \in {j \in DOMAIN assign : assign[j][1] = category}})

\* the mesh in which element ElemId(i) has the shape assign[i]; with
\* decorated, it also has two nodes and the group 0 of all its elements
MeshOf(assign, decorated) ==
    LET present == {i \in DOMAIN assign : assign[i][1] # "none"}
    IN  [Edges |-> ElemsOf(assign, "edge"),
         Faces |-> ElemsOf(assign, "face"),
         Volumes |-> ElemsOf(assign, "volume"),
         getElementNodes |->
             [e \in {ElemId(i) : i \in present} |->
                 LET i == CHOOSE j \in present : ElemId(j) = e
                 IN  [k \in 1..assign[i][2] |-> e + assign[i][2] - k]],
         Nodes |-> IF decorated
                   THEN << <<1, <<0, 0, 0>> >>, <<2, <<1, 0, 0>> >> >>
                   ELSE <<>>,
         Groups |-> IF decorated THEN <<0>> ELSE <<>>,
         getGroupName |->
             [g \in IF decorated THEN {0} ELSE {} |-> <<"F","i","x","e","d">>],
         getGroupElements |->
             [g \in IF decorated THEN {0} ELSE {} |->
                 SortedSeq({ElemId(i) : i \in present})]]

EmptyMesh == MeshOf(<<>>, FALSE)

\* the empty mesh, and the meshes of up to n elements
MeshesOf(n) == {EmptyMesh} \cup {MeshOf(assign, TRUE) : assign \in [1..n -> Shapes]}

Meshes == MeshesOf(MaxElems)
FileMeshes == MeshesOf(MaxFileElems)

EveryElement(femmesh) == femmesh.Edges \o femmesh.Faces \o femmesh.Volumes

\* every element has a node count listed for its category
Supported(femmesh) ==
    /\ \A i \in 1..Len(femmesh.Edges) :
           Len(femmesh.getElementNodes[femmesh.Edges[i]]) \in {2, 3}
    /\ \A i \in 1..Len(femmesh.Faces) :
           Len(femmesh.getElementNodes[femmesh.Faces[i]]) \in {3, 4, 6, 8}
    /\ \A i \in 1..Len(femmesh.Volumes) :
           Len(femmesh.getElementNodes[femmesh.Volumes[i]]) \in {4, 6, 8, 10, 15, 20}

\* documents that no export of this module wrote
ForeignRecords ==
    {
      \* an empty document
      PyDict(<<>>),
      \* a key that is no number
      PyDict(<<<<PyStr(<<"N","o","d","e","s">>), PyDict(<<<<PyStr(<<"a">>), PyList(<<PyInt(0), PyInt(0), PyInt(0)>>)>>>>)>>>>),
      \* a group named by a word, beside a good bucket
      PyDict(<<<<PyStr(<<"G","r","o","u","p","s">>), PyDict(<<<<PyStr(<<"t","o","p">>), PyList(<<PyStr(<<"F","i","x","e","d">>), PyList(<<PyInt(7)>>)>>)>>>>)>>, <<PyStr(<<"S","e","g","2","E","l","e","m">>), PyDict(<<<<PyStr(<<"7">>), PyList(<<PyInt(2), PyInt(1)>>)>>>>)>>>>),
      \* upper-case GROUPS and a key with spaces and a sign
      PyDict(<<<<PyStr(<<"G","R","O","U","P","S">>), PyDict(<<<<PyStr(<<"x">>), PyList(<<PyStr(<<"F","i","x","e","d">>), PyList(<<PyInt(7)>>)>>)>>>>)>>, <<PyStr(<<"n","o","d","e","s">>), PyDict(<<<<PyStr(<<" ","+","1"," ">>), PyList(<<PyInt(0), PyInt(0), PyInt(0)>>)>>>>)>>>>),
      \* two keys that are the same integer
      PyDict(<<<<PyStr(<<"S","e","g","2","E","l","e","m">>), PyDict(<<<<PyStr(<<"1">>), PyList(<<PyInt(2), PyInt(1)>>)>>, <<PyStr(<<"0","1">>), PyList(<<PyInt(3), PyInt(2)>>)>>>>)>>>>),
      \* an unknown bucket, keys with underscore and minus
      PyDict(<<<<PyStr(<<"F","o","o">>), PyDict(<<<<PyStr(<<"1","_","0">>), PyList(<<PyInt(1)>>)>>, <<PyStr(<<"-","3">>), PyList(<<PyInt(2)>>)>>>>)>>>>),
      \* a decimal key
      PyDict(<<<<PyStr(<<"T","r","i","a","3","E","l","e","m">>), PyDict(<<<<PyStr(<<"1",".","5">>), PyList(<<PyInt(1), PyInt(2), PyInt(3)>>)>>>>)>>>>),
      \* an empty key
      PyDict(<<<<PyStr(<<"N","o","d","e","s">>), PyDict(<<<<PyStr(<<>>), PyList(<<PyInt(0), PyInt(0), PyInt(0)>>)>>>>)>>>>),
      \* a bad key after a good bucket
      PyDict(<<<<PyStr(<<"Q","u","a","d","4","E","l","e","m">>), PyDict(<<<<PyStr(<<"1","2">>), PyList(<<PyInt(4), PyInt(3), PyInt(2), PyInt(1)>>)>>>>)>>, <<PyStr(<<"N","o","d","e","s">>), PyDict(<<<<PyStr(<<"x","1">>), PyList(<<PyInt(0), PyInt(0), PyInt(0)>>)>>>>)>>>>),
      \* a bad key in a bucket whose name only resembles groups
      PyDict(<<<<PyStr(<<"G","r","o","u","p","s","2">>), PyDict(<<<<PyStr(<<"t","o","p">>), PyList(<<PyStr(<<"F","i","x","e","d">>), PyList(<<PyInt(7)>>)>>)>>>>)>>>>)
    }

\* destination and source paths
Paths ==
    {<<"m",".","j","s","o","n">>,
     <<"M",".","J","S","O","N">>,
     <<"a",".","y","a","m","l">>,
     <<"b",".","Y","m","l">>,
     <<"c",".","x","y","z">>,
     <<>>,
     <<".","j","s","o","n">>,
     <<"d",".","x","/","e",".","j","s","o","n">>}

\* a file: the value its codec reads from it, and, when an export of this
\* module wrote it, the mesh it was written from
FileOfMesh(femmesh, codec) ==
    [origin |-> <<femmesh>>,
     codec |-> codec,
     data |-> IF codec = "json"
              THEN JsonLoad(JsonDump(convert_femmesh_to_dict(femmesh).ret[1]))
              ELSE YamlLoad(YamlDump(convert_femmesh_to_dict(femmesh).ret[1]))]

ForeignFiles ==
    {[origin |-> <<>>, codec |-> codec, data |-> data] :
        data \in ForeignRecords, codec \in {"json", "yaml"}}

FilesOf(meshes) ==
    {FileOfMesh(femmesh, codec) : femmesh \in {m \in meshes : Supported(m)},
                                  codec \in {"json", "yaml"}}
        \cup ForeignFiles

\* the files handed to convert_raw_data_to_mesh_data, and those imported
Files == FilesOf(Meshes)
ImportFiles == FilesOf(FileMeshes)

\* the paths a file is imported from: those that name a file
ImportPaths == Paths \ {<<>>, <<".","j","s","o","n">>}

\* the codec the extension of fileString selects, whether or not the yaml
\* module is there
CodecOf(fileString) ==
    LET fileExtension == SplitExt(BaseName(fileString))[2]
    IN  IF IsJsonExt(fileExtension) THEN "json"
        ELSE IF IsYamlExt(fileExtension, TRUE) THEN "yaml"
        ELSE "none"

\* the document objects handed to export
PlainObject == [isFemMeshObject |-> FALSE, FemMesh |-> EmptyMesh]
MeshObject(femmesh) == [isFemMeshObject |-> TRUE, FemMesh |-> femmesh]
DocObjects == {MeshObject(femmesh) : femmesh \in FileMeshes} \cup {PlainObject}

ObjectLists ==
    {<<>>}
        \cup {<<o>> : o \in DocObjects}
        \cup {<<MeshObject(EmptyMesh), o>> : o \in {PlainObject, MeshObject(EmptyMesh)}}

\* what make_femmesh may return
FemMeshHandle == [kind |-> "FemMesh", val |-> 1]
BuildResults == {PyNone, FemMeshHandle}

-----------------------------------------------------------------------------
(* The state machine: one call of an entry point on a freshly loaded       *)
(* module.  has_yaml is set when the module is loaded.                     *)

NoArgs == [femmesh |-> <<>>, file |-> <<>>, objectslist |-> <<>>,
           fileString |-> <<>>, built |-> <<>>]

Init ==
    /\ has_yaml \in BOOLEAN
    /\ op = "none"
    /\ args = NoArgs
    /\ log = <<>>
    /\ raised = ""
    /\ ret = <<>>
    /\ document = <<>>

CallConvert ==
    /\ op = "none"
    /\ \E femmesh \in Meshes :
        /\ op' = "convert_femmesh_to_dict"
        /\ args' = [NoArgs EXCEPT !.femmesh = <<femmesh>>]
        /\ LET r == convert_femmesh_to_dict(femmesh)
           IN  raised' = r.raised /\ ret' = r.ret
        /\ UNCHANGED <<has_yaml, log, document>>

CallNormalize ==
    /\ op = "none"
    /\ \E file \in Files :
        /\ op' = "convert_raw_data_to_mesh_data"
        /\ args' = [NoArgs EXCEPT !.file = <<file>>]
        /\ LET r == convert_raw_data_to_mesh_data(file.data)
           IN  raised' = r.raised /\ ret' = r.ret
        /\ UNCHANGED <<has_yaml, log, document>>

CallExport ==
    /\ op = "none"
    /\ \E objectslist \in ObjectLists, fileString \in Paths :
        /\ op' = "export"
        /\ args' = [NoArgs EXCEPT !.objectslist = objectslist,
                                  !.fileString = fileString]
        /\ LET r == export(objectslist, fileString, has_yaml)
           IN  log' = r.log /\ raised' = r.raised
        /\ UNCHANGED <<has_yaml, ret, document>>

CallImport ==
    /\ op = "none"
    /\ \E fileString \in ImportPaths, file \in ImportFiles, built \in BuildResults :
        /\ CodecOf(fileString) \in {"none", file.codec}
        /\ op' = "import_yaml_json_mesh"
        /\ args' = [NoArgs EXCEPT !.fileString = fileString,
                                  !.file = <<file>>,
                                  !.built = <<built>>]
        /\ LET r == import_yaml_json_mesh(fileString, file.data, built, has_yaml)
           IN  /\ log' = r.log
               /\ raised' = r.raised
               /\ document' = document \o r.created
        /\ UNCHANGED <<has_yaml, ret>>

Next == CallConvert \/ CallNormalize \/ CallExport \/ CallImport

Spec == Init /\ [][Next]_vars

-----------------------------------------------------------------------------
(* Vocabulary of the properties.                                           *)

Logged(tag) == \E i \in 1..Len(log) : log[i][1] = tag
Events(tag) == {i \in 1..Len(log) : log[i][1] = tag}

TheMesh == args.femmesh[1]
TheFile == args.file[1]
TheRecord == ret[1]

Bucket(record, name) == DictGet(record, PyStr(name))

\* the bucket the arity table gives an element of a category with n nodes
TableBucket(category, n) ==
    CASE category = "edge" /\ n = 2 -> Seg2Elem
      [] category = "edge" /\ n = 3 -> Seg3Elem
      [] category = "face" /\ n = 3 -> Tria3Elem
      [] category = "face" /\ n = 4 -> Quad4Elem
      [] category = "face" /\ n = 6 -> Tria6Elem
      [] category = "face" /\ n = 8 -> Quad8Elem
      [] category = "volume" /\ n = 4 -> Tetra4Elem
      [] category = "volume" /\ n = 6 -> Penta6Elem
      [] category = "volume" /\ n = 8 -> Hexa8Elem
      [] category = "volume" /\ n = 10 -> Tetra10Elem
      [] category = "volume" /\ n = 15 -> Penta15Elem
      [] category = "volume" /\ n = 20 -> Hexa20Elem

ElementsIn(femmesh, category) ==
    CASE category = "edge" -> Range(femmesh.Edges)
      [] category = "face" -> Range(femmesh.Faces)
      [] category = "volume" -> Range(femmesh.Volumes)

\* where element e occurs as a key in the element buckets of a record
Occurrences(record, e) ==
    {<<b, i>> \in (1..Len(ElementBuckets)) \X (1..MaxElems + 1) :
        /\ DictHas(record, PyStr(ElementBuckets[b]))
        /\ i <= Len(Bucket(record, ElementBuckets[b]).val)
        /\ Bucket(record, ElementBuckets[b]).val[i][1] = PyInt(e)}

FourteenBuckets ==
    {PyStr(Nodes), PyStr(Groups)} \cup {PyStr(ElementBuckets[b]) : b \in 1..Len(ElementBuckets)}

\* the base name, extension stripped, of each path of the model
BaseNameOf(fileString) ==
    CASE fileString = <<"m",".","j","s","o","n">> -> <<"m">>
      [] fileString = <<"M",".","J","S","O","N">> -> <<"M">>
      [] fileString = <<"a",".","y","a","m","l">> -> <<"a">>
      [] fileString = <<"b",".","Y","m","l">> -> <<"b">>
      [] fileString = <<"c",".","x","y","z">> -> <<"c">>
      [] fileString = <<>> -> <<>>
      [] fileString = <<".","j","s","o","n">> -> <<".","j","s","o","n">>
      [] fileString = <<"d",".","x","/","e",".","j","s","o","n">> -> <<"e">>

\* the keys of the model's files that int() takes, and those it refuses
GoodKeys ==
    {<<"0">>, <<"1">>, <<"2">>, <<"7">>, <<"1","2">>, <<"1","7">>, <<"0","1">>, <<" ","+","1"," ">>, <<"1","_","0">>, <<"-","3">>}
BadKeys ==
    {<<"a">>, <<"x">>, <<"t","o","p">>, <<"1",".","5">>, <<>>, <<"x","1">>}

\* the bucket names that are "groups" when case is ignored
GroupsNames == {PyStr(Groups), PyStr(<<"G","R","O","U","P","S">>)}

\* the buckets of a raw record that are not the groups
PlainItems(raw) == {item \in Range(raw.val) : item[1] \notin GroupsNames}
GroupsItems(raw) == {item \in Range(raw.val) : item[1] \in GroupsNames}

HasBadKey(raw) ==
    \E item \in PlainItems(raw) : \E k \in DictKeys(item[2]) :
        k.kind = "str" /\ k.val \in BadKeys
AllKeysGood(raw) ==
    \A item \in Range(raw.val) : \A k \in DictKeys(item[2]) :
        k.kind = "str" /\ k.val \in GoodKeys

-----------------------------------------------------------------------------
(* Properties.                                                             *)

\* C1: converting a mesh whose elements all have listed node counts puts
\* each element in the one bucket the arity table gives for its category,
\* keyed by its id and mapped to its node tuple, in no other bucket, and no
\* element bucket holds a key that is not an element of the mesh.
C1_ArityClassification ==
    (op = "convert_femmesh_to_dict" /\ Supported(TheMesh)) =>
        /\ raised = "" /\ ret # <<>>
        /\ \A category \in {"edge", "face", "volume"} :
             \A e \in ElementsIn(TheMesh, category) :
                LET t == TheMesh.getElementNodes[e]
                    name == TableBucket(category, Len(t))
                IN  /\ DictHas(TheRecord, PyStr(name))
                    /\ DictHas(Bucket(TheRecord, name), PyInt(e))
                    /\ DictGet(Bucket(TheRecord, name), PyInt(e))
                          = PyTuple([i \in 1..Len(t) |-> PyInt(t[i])])
                    /\ Cardinality(Occurrences(TheRecord, e)) = 1
        /\ \A b \in 1..Len(ElementBuckets) :
             DictHas(TheRecord, PyStr(ElementBuckets[b])) =>
                \A k \in DictKeys(Bucket(TheRecord, ElementBuckets[b])) :
                    k.kind = "int" /\ k.val \in Range(EveryElement(TheMesh))

\* a six-node face and a volume were converted
C1_Witness ==
    /\ op = "convert_femmesh_to_dict"
    /\ raised = "" /\ ret # <<>>
    /\ \E e \in Range(TheMesh.Faces) : Len(TheMesh.getElementNodes[e]) = 6
    /\ TheMesh.Volumes # <<>>

\* C8: every record convert_femmesh_to_dict returns has exactly the fourteen
\* bucket names, each once, also for the empty mesh; and it returns one for
\* every mesh with listed node counts.
C8_FourteenBuckets ==
    (op = "convert_femmesh_to_dict") =>
        /\ Supported(TheMesh) => ret # <<>>
        /\ ret # <<>> =>
              /\ DictKeys(TheRecord) = FourteenBuckets
              /\ Len(TheRecord.val) = Cardinality(FourteenBuckets)

\* the empty mesh was converted
C8_Witness ==
    /\ op = "convert_femmesh_to_dict"
    /\ TheMesh = EmptyMesh
    /\ ret # <<>>
    /\ \A item \in Range(TheRecord.val) : item[2].val = <<>>

\* C9: a mesh with an element whose node count its category does not list
\* makes convert_femmesh_to_dict raise KeyError and return nothing, and an
\* export of such a mesh raises too and opens and writes no file, whatever
\* the destination.
C9_UnsupportedArityFails ==
    /\ (op = "convert_femmesh_to_dict" /\ ~Supported(TheMesh)) =>
           raised = "KeyError" /\ ret = <<>>
    /\ (/\ op = "export"
        /\ Len(args.objectslist) = 1
        /\ args.objectslist[1].isFemMeshObject
        /\ ~Supported(args.objectslist[1].FemMesh)) =>
           /\ raised = "KeyError"
           /\ ~Logged("pyopen") /\ ~Logged("json.dump") /\ ~Logged("yaml.safe_dump")

\* a mesh with a five-node face was exported to a .json path
C9_Witness ==
    /\ op = "export"
    /\ CodecOf(args.fileString) = "json"
    /\ Len(args.objectslist) = 1
    /\ args.objectslist[1].isFemMeshObject
    /\ \E e \in Range(args.objectslist[1].FemMesh.Faces) :
          Len(args.objectslist[1].FemMesh.getElementNodes[e]) = 5
    /\ raised = "KeyError"

\* C5: export of an object list whose length is not 1, or of one object
\* that is no Fem::FemMeshObject, prints one error, raises nothing, does not
\* run convert_femmesh_to_dict and opens and writes no file.
C5_ExportRejects ==
    (/\ op = "export"
     /\ \/ Len(args.objectslist) # 1
        \/ ~args.objectslist[1].isFemMeshObject) =>
        /\ Len(log) = 1 /\ log[1][1] = "PrintError"
        /\ raised = ""
        /\ ~Logged("convert_femmesh_to_dict")
        /\ ~Logged("pyopen") /\ ~Logged("json.dump") /\ ~Logged("yaml.safe_dump")

\* two objects were handed to export, with a .json destination
C5_Witness ==
    /\ op = "export"
    /\ Len(args.objectslist) = 2
    /\ CodecOf(args.fileString) = "json"
    /\ Logged("PrintError")

\* C7: a run of import_yaml_json_mesh creates at most one document object,
\* and only after make_femmesh returned a truthy mesh: then the one object
\* is a Fem::FemMeshObject named by the base name of the file without its
\* extension and holds the mesh made; after a falsy result no object is
\* created and nothing more is reported.
C7_ImportCreatesAfterBuild ==
    (op = "import_yaml_json_mesh") =>
        /\ Len(document) <= 1
        /\ Cardinality(Events("addObject")) = Len(document)
        /\ \A i \in Events("addObject") :
              /\ args.built[1] # PyNone
              /\ \E j \in Events("make_femmesh") : j < i
        /\ (Logged("make_femmesh") /\ args.built[1] # PyNone) =>
              /\ Len(document) = 1
              /\ document[1].Type = "Fem::FemMeshObject"
              /\ document[1].Name = BaseNameOf(args.fileString)
              /\ document[1].FemMesh = args.built[1]
        /\ (Logged("make_femmesh") /\ args.built[1] = PyNone) =>
              /\ document = <<>>
              /\ log[Len(log)][1] = "make_femmesh"

\* a file in a directory was imported and its mesh attached
C7_Witness ==
    /\ op = "import_yaml_json_mesh"
    /\ args.fileString = <<"d",".","x","/","e",".","j","s","o","n">>
    /\ Len(document) = 1

\* C10: a key that int() refuses, in a bucket that is not the groups, makes
\* convert_raw_data_to_mesh_data raise ValueError and return nothing; on
\* import the error leaves before make_femmesh is called and no object is
\* created; a file whose keys are refused only inside the groups is
\* converted.
C10_BadKeyFails ==
    /\ (op = "convert_raw_data_to_mesh_data" /\ HasBadKey(TheFile.data)) =>
           raised = "ValueError" /\ ret = <<>>
    /\ (op = "convert_raw_data_to_mesh_data" /\ ~HasBadKey(TheFile.data)) =>
           raised = "" /\ ret # <<>>
    /\ (/\ op = "import_yaml_json_mesh"
        /\ Logged("pyopen")
        /\ HasBadKey(TheFile.data)) =>
           /\ raised = "ValueError"
           /\ ~Logged("make_femmesh") /\ ~Logged("addObject")
           /\ document = <<>>

\* a file with a bad key behind a good bucket was imported
C10_Witness ==
    /\ op = "import_yaml_json_mesh"
    /\ Logged("pyopen")
    /\ HasBadKey(TheFile.data)
    /\ \E item \in PlainItems(TheFile.data) :
          \A k \in DictKeys(item[2]) : k.val \in GoodKeys
    /\ raised = "ValueError"

\* the text of a key, whatever its type
KeyText(k) == IF k.kind = "str" THEN k.val ELSE IntToStr(k.val)

RECURSIVE AsLists(_)
\* a value with its tuples read as lists
AsLists(v) ==
    IF v.kind \in {"tuple", "list"}
    THEN PyList([i \in 1..Len(v.val) |-> AsLists(v.val[i])])
    ELSE v

\* two buckets hold the same entries with the same values, up to the type
\* of the keys
SameUpToKeyType(d1, d2) ==
    {<<KeyText(item[1]), AsLists(item[2])>> : item \in Range(d1.val)}
        = {<<KeyText(item[1]), AsLists(item[2])>> : item \in Range(d2.val)}

\* C2: normalizing the JSON-read form of convert_femmesh_to_dict(M) gives
\* a record with the same fourteen buckets as convert_femmesh_to_dict(M),
\* each with the same entries and values up to the type of the keys.
C2_RoundTrip ==
    (/\ op = "convert_raw_data_to_mesh_data"
     /\ TheFile.origin # <<>>
     /\ TheFile.codec = "json") =>
        LET original == convert_femmesh_to_dict(TheFile.origin[1]).ret[1]
        IN  /\ raised = "" /\ ret # <<>>
            /\ DictKeys(TheRecord) = DictKeys(original)
            /\ \A name \in DictKeys(original) :
                  /\ DictHas(TheRecord, name)
                  /\ SameUpToKeyType(DictGet(TheRecord, name), DictGet(original, name))

\* C3: normalizing a raw record whose keys are all integer-parsable strings
\* keeps every bucket under its name: a bucket that is not the groups has
\* integer keys, each the integer of an input key with that key's value, and
\* the groups bucket is in the output as it was in the input.
C3_NormalizeKeepsBuckets ==
    (op = "convert_raw_data_to_mesh_data" /\ AllKeysGood(TheFile.data)) =>
        /\ raised = "" /\ ret # <<>>
        /\ \A item \in PlainItems(TheFile.data) :
              /\ DictHas(TheRecord, item[1])
              /\ \A out \in Range(DictGet(TheRecord, item[1]).val) :
                    /\ out[1].kind = "int"
                    /\ \E in \in Range(item[2].val) :
                          IntOfStr(in[1].val).val = out[1].val /\ in[2] = out[2]
              /\ \A in \in Range(item[2].val) :
                    DictHas(DictGet(TheRecord, item[1]), PyInt(IntOfStr(in[1].val).val))
        /\ \A item \in GroupsItems(TheFile.data) :
              /\ DictHas(TheRecord, item[1])
              /\ DictGet(TheRecord, item[1]) = item[2]

\* C4: importing a path whose extension is none of .json, .yaml, .yml
\* prints an error, creates no document object and attaches no mesh,
\* whatever make_femmesh returns.
C4_UnknownExtensionNoMesh ==
    (op = "import_yaml_json_mesh" /\ CodecOf(args.fileString) = "none") =>
        /\ Logged("PrintError")
        /\ document = <<>>
        /\ ~Logged("addObject") /\ ~Logged("setattr FemMesh")

\* C6: without the yaml module, an export of a mesh to a .yaml or .yml path
\* opens no file and prints nothing, and an import from such a path prints
\* no error and creates no document object.
C6_NoYamlSilent ==
    (~has_yaml /\ CodecOf(args.fileString) = "yaml") =>
        /\ (/\ op = "export"
            /\ Len(args.objectslist) = 1
            /\ args.objectslist[1].isFemMeshObject
            /\ Supported(args.objectslist[1].FemMesh)) =>
               /\ raised = ""
               /\ ~Logged("pyopen") /\ ~Logged("yaml.safe_dump")
               /\ ~Logged("PrintError") /\ ~Logged("PrintMessage")
        /\ (op = "import_yaml_json_mesh") =>
               /\ ~Logged("PrintError")
               /\ document = <<>>
               /\ ~Logged("addObject")

====
